---- MODULE Spec2Model ----
(***************************************************************************)
(* A model of the execution core of the build orchestrator:                *)
(*   - the remote-cache client (warning policy, lazy fetch, backtracking), *)
(*     driven by the two integration tests of                              *)
(*     remote_cache_integration_test.py;                                   *)
(*   - the rule-graph engine (memoization, single-flight, cycle check),    *)
(*     driven by the build_go_package rule of build_pkg.py.                *)
(* The engine and the cache client themselves are not part of the source   *)
(* files at hand; they are modelled from their specification and the       *)
(* rules and tests that call them are modelled from their code.            *)
(***************************************************************************)
EXTENDS Integers, Sequences, FiniteSets, TLC

VARIABLES
    \* ---- remote cache: the test driving the build and its configuration
    test,           \* "warns" | "lazy": which integration test is running
    behavior,       \* the RemoteCacheWarningsBehavior the test asks for
    options,        \* the options the build was started with
    stub,           \* the StubCAS: its error switches, action cache and blobs
    testpc,         \* the test's position
    run_no,         \* the run of the test (1 or 2)
    file_digest,    \* run -> the file digest the run returned (or NoDigest)
    run_metrics,    \* run -> the metrics the run returned (or NoMetrics)
    removed,        \* what cas.remove answered
    \* ---- remote cache: one build (one scheduler)
    procs,          \* process id -> the process node
    consumer,       \* the entries_from_process node
    localStore,     \* the build's local store
    pendingWrites,  \* cache writes in flight (fire-and-forget)
    metrics,        \* the scheduler's counters
    errCount,       \* failure class -> failures so far
    stderr,         \* the warnings shown to the user
    buildStatus,    \* "idle" | "running" | "success" | "failed"
    execCount,      \* process id -> local executions in this build
    process_result, \* the ProcessResult node made from the Process's result
    reproducible,   \* whether a re-execution can still save its output
    \* ---- package build: the targets, the goal's requests, the rule graph
    targets,        \* address -> the target the BUILD files declare
    roots,          \* the requests the goal makes, in order
    rootState,      \* root index -> "todo" | "waiting" | "done"
    observed,       \* root index -> what the request returned
    nodes,          \* memoization table: request -> rule-graph node
    nextId,         \* request objects constructed so far
    bodyRuns,       \* request value -> executions of the rule body begun
    compileRuns,    \* request value -> compiler invocations
    \* ---- run goal: its options, the coroutine, the work directory
    run_subsystem,  \* RunSubsystem: [cleanup]
    global_options, \* GlobalOptions: [process_cleanup]
    run_frame,      \* run(): its position and its local variables
    workdir,        \* pants_workdir: temporary directory -> what was written
    run_log,        \* the messages run() logged
    run_result      \* the Run the goal returned

cacheVars == <<test, behavior, options, stub, testpc, run_no, file_digest,
               run_metrics, removed, procs, consumer, localStore,
               pendingWrites, metrics, errCount, stderr, buildStatus,
               execCount, process_result, reproducible>>

buildVars == <<targets, roots, rootState, observed, nodes, nextId, bodyRuns,
               compileRuns>>

goalVars == <<run_subsystem, global_options, run_frame, workdir, run_log,
              run_result>>

vars == <<cacheVars, buildVars, goalVars>>

(***************************************************************************)
(* Bounds                                                                  *)
(***************************************************************************)
\* The largest number of process actions one `package` build runs.
MaxProcs == 5
\* The number of targets (addresses 1..NumUnits) of the package build.
NumUnits == 4
\* The largest number of dependency edges among the targets.
MaxEdges == 4
\* The largest number of dependency edges when import paths may coincide.
MaxDeps == 2
\* The largest exit code of the process the run goal executes.
MaxExitCode == 3

(***************************************************************************)
(* Digests and stores                                                      *)
(***************************************************************************)
NoDigest == [none |-> TRUE]
NoMetrics == [none |-> TRUE]

\* The radix of the byte alphabet of file contents.
ByteBase == 4

\* The content fingerprint of a byte sequence: its positional value in
\* radix ByteBase with digits 1..ByteBase, which differs for any two
\* sequences over 0..ByteBase-1.
RECURSIVE Fingerprint(_)
Fingerprint(bytes) ==
    IF bytes = <<>> THEN 0
    ELSE (Head(bytes) + 1) + (ByteBase + 1) * Fingerprint(Tail(bytes))

\* FileDigest: fingerprint + byte length of a file's content.
FileDigestOf(bytes) ==
    [fingerprint |-> Fingerprint(bytes), serialized_bytes_length |-> Len(bytes)]

\* The manifest of a tree (path -> bytes): path -> file digest.
ManifestOf(tree) ==
    [p \in DOMAIN tree |-> FileDigestOf(tree[p])]

\* Digest of a directory: addressed by its structural manifest.
DirDigestOf(tree) ==
    [manifest |-> ManifestOf(tree), entries |-> Cardinality(DOMAIN tree)]

EmptyStore == [files |-> {}, trees |-> {}]

\* A store after the content of `tree` was saved in it.
StoreTree(store, tree) ==
    [files |-> store.files \cup {FileDigestOf(tree[p]) : p \in DOMAIN tree},
     trees |-> store.trees \cup {DirDigestOf(tree)}]

\* Whether a store holds the manifest of a directory digest.
HasManifest(store, digest) == digest \in store.trees

\* Whether a store holds the manifest and every file of a directory digest.
HasContents(store, digest) ==
    /\ digest \in store.trees
    /\ \A p \in DOMAIN digest.manifest : digest.manifest[p] \in store.files

\* What is still to be copied into `store` for `digest`, taken from `from`.
Fetch(store, from, digest) ==
    [files |-> store.files \cup
               ({digest.manifest[p] : p \in DOMAIN digest.manifest}
                   \cap from.files),
     trees |-> store.trees \cup ({digest} \cap from.trees)]

(***************************************************************************)
(* remote_cache_integration_test.py: configuration                        *)
(***************************************************************************)
RemoteCacheWarningsBehavior == {"ignore", "first_only", "backoff"}

\* store_address.replace("http://", "grpc://")
GrpcAddress(store_address) ==
    IF store_address.scheme = "http"
    THEN [store_address EXCEPT !.scheme = "grpc"]
    ELSE store_address

remote_cache_args_dropping_behavior(store_address, warnings_behavior) ==
    [remote_cache_read |-> TRUE,
     remote_cache_write |-> TRUE,
     remote_cache_warnings |-> "backoff",
     remote_store_address |-> GrpcAddress(store_address)]

remote_cache_args_no_write(store_address, warnings_behavior) ==
    [remote_cache_read |-> TRUE,
     remote_cache_write |-> FALSE,
     remote_cache_warnings |-> warnings_behavior,
     remote_store_address |-> GrpcAddress(store_address)]

remote_cache_args(store_address, warnings_behavior) ==
    [remote_cache_read |-> TRUE,
     remote_cache_write |-> TRUE,
     remote_cache_warnings |-> warnings_behavior,
     remote_store_address |-> GrpcAddress(store_address)]

\* cas.address of the stub server.
StubAddress == [scheme |-> "http", host |-> "127.0.0.1"]

\* The options of run() in test_warns_on_remote_cache_errors: the remote
\* cache arguments, everything else at its default.
WarnsOptions(b) ==
    [remote_cache_eager_fetch |-> TRUE, local_cache |-> TRUE,
     isolated_local_store |-> FALSE]
        @@ remote_cache_args(StubAddress, b)

\* The options of run() in test_lazy_fetch_backtracking.
LazyOptions ==
    [remote_cache_eager_fetch |-> FALSE, local_cache |-> FALSE,
     isolated_local_store |-> TRUE]
        @@ remote_cache_args(StubAddress, "backoff")

\* PyStubCAS.builder().ac_always_errors().cas_always_errors().build(executor)
ErroringStub ==
    [ac_always_errors |-> TRUE, cas_always_errors |-> TRUE,
     action_cache |-> <<>>, blobs |-> EmptyStore]

\* PyStubCAS.builder().build(executor)
PlainStub ==
    [ac_always_errors |-> FALSE, cas_always_errors |-> FALSE,
     action_cache |-> <<>>, blobs |-> EmptyStore]

\* cas.action_cache_len()
action_cache_len == Cardinality(DOMAIN stub.action_cache)

(***************************************************************************)
(* remote_cache_integration_test.py: the processes and the messages        *)
(***************************************************************************)
\* The bytes `echo content > file.txt` writes.
ContentBytes == <<2, 1, 3>>

\* Process(["/bin/bash", "-c", "sleep 1; echo content > file.txt"], ...)
LazyProcess ==
    [argv |-> <<"/bin/bash", "-c", "sleep 1; echo content > file.txt">>,
     description |-> "Create file.txt",
     output_files |-> {"file.txt"}]

\* The p-th process action of the `package` build of the warnings test.
PackageProcess(p) ==
    [argv |-> <<"package", p>>,
     description |-> "testprojects/src/python/hello/main:main",
     output_files |-> {"out"}]

ProcessOf(t, p) == IF t = "lazy" THEN LazyProcess ELSE PackageProcess(p)

\* A process whose output depends on when it runs.
ProcessOutput_timestamped(process, when) ==
    [f \in process.output_files |-> <<when % ByteBase>>]

\* The output tree of one local execution of a process: the declared output
\* files, with content that is a function of the command alone.
ProcessOutput(process, when) ==
    [f \in process.output_files |->
        IF process = LazyProcess THEN ContentBytes
        ELSE <<process.argv[2] % ByteBase>>]

\* read_err(i) and write_err(i): the lines the test looks for in stderr.
read_err(i) ==
    [failed_to |-> "read from", occurrences |-> i, cause |-> "Unavailable"]

write_err(i) ==
    [failed_to |-> "write to", occurrences |-> i,
     cause |-> "InvalidArgument: StubCAS is configured to always fail"]

FailureClasses == {"read from", "write to"}

(***************************************************************************)
(* Remote cache client: the warning policy (4.3)                           *)
(***************************************************************************)
\* Whether a count is 1 or a doubling threshold: halve while even.
RECURSIVE IsDoublingThreshold(_)
IsDoublingThreshold(n) ==
    IF n <= 0 THEN FALSE
    ELSE IF n = 1 THEN TRUE
    ELSE IF n % 2 = 1 THEN FALSE
    ELSE IsDoublingThreshold(n \div 2)

ShouldWarn_every_time(policy, count) == policy # "ignore"

\* Whether the count-th failure of a class surfaces under the policy.
ShouldWarn(policy, count) ==
    CASE policy = "ignore" -> FALSE
      [] policy = "first_only" -> count = 1
      [] policy = "backoff" -> IsDoublingThreshold(count)

\* The stderr after one more failure of class `class` with cause `cause`.
LoggedFailure(class, cause) ==
    LET count == errCount[class] + 1 IN
    IF ShouldWarn(options.remote_cache_warnings, count)
    THEN stderr \cup {[failed_to |-> class, occurrences |-> count,
                       cause |-> cause]}
    ELSE stderr

\* The action fingerprint: command, environment, input tree and declared
\* outputs.
ActionFingerprint(process) ==
    [argv |-> process.argv, output_files |-> process.output_files]

ZeroMetrics ==
    [remote_cache_requests |-> 0, remote_cache_requests_cached |-> 0,
     remote_cache_requests_uncached |-> 0, backtrack_attempts |-> 0]

NoResult == [none |-> TRUE]

\* A node as created on first request.
PendingNode == [state |-> "Pending", pc |-> "none", attempt |-> 0,
                result |-> NoResult]

\* No such node in the graph.
AbsentNode == [PendingNode EXCEPT !.state = "Absent"]

(***************************************************************************)
(* The two tests as drivers                                                *)
(***************************************************************************)
NoConsumer == [pc |-> "absent", step |-> 0, entries |-> <<>>]

\* run() has no exit code yet.
NoExitCode == -1

\* The run goal is not part of the scenario: its options have their
\* defaults and its rule is not called.
IdleFrame ==
    [pc |-> "idle", restartable |-> FALSE, cleanup |-> TRUE,
     tmpdir |-> "none", exit_code |-> NoExitCode]

GoalIdle ==
    /\ run_subsystem = [cleanup |-> TRUE]
    /\ global_options = [process_cleanup |-> TRUE]
    /\ run_frame = IdleFrame
    /\ workdir = <<>>
    /\ run_log = {}
    /\ run_result = NoResult

CacheStart ==
    /\ test \in {"warns", "lazy"}
    /\ behavior \in (IF test = "warns" THEN RemoteCacheWarningsBehavior
                                        ELSE {"backoff"})
    /\ options = IF test = "warns" THEN WarnsOptions(behavior) ELSE LazyOptions
    /\ stub = IF test = "warns" THEN ErroringStub ELSE PlainStub
    /\ testpc = "start"
    /\ run_no = 1
    /\ file_digest = [r \in 1..2 |-> NoDigest]
    /\ run_metrics = [r \in 1..2 |-> NoMetrics]
    /\ removed = FALSE
    /\ procs = <<>>
    /\ consumer = NoConsumer
    /\ localStore = EmptyStore
    /\ pendingWrites = {}
    /\ metrics = ZeroMetrics
    /\ errCount = [c \in FailureClasses |-> 0]
    /\ stderr = {}
    /\ buildStatus = "idle"
    /\ execCount = <<>>
    /\ process_result = AbsentNode
    /\ targets = <<>>
    /\ roots = <<>>
    /\ rootState = <<>>
    /\ observed = <<>>
    /\ nodes = <<>>
    /\ nextId = 0
    /\ bodyRuns = <<>>
    /\ compileRuns = <<>>
    /\ GoalIdle

\* The two tests as written: what a process wrote can be written again.
CacheInit == CacheStart /\ reproducible = TRUE

\* The two tests, also when the output of a process that has to be run
\* again is no longer to be had.
BacktrackInit == CacheStart /\ reproducible \in BOOLEAN

\* run(behavior) of test_warns_on_remote_cache_errors: one `package` build
\* in a fresh process, which runs some number of process actions.
run_pants ==
    /\ test = "warns" /\ testpc = "start"
    /\ \E n \in 1..MaxProcs :
        /\ procs' = [p \in 1..n |-> PendingNode]
        /\ execCount' = [p \in 1..n |-> 0]
    /\ buildStatus' = "running"
    /\ testpc' = "running"
    /\ UNCHANGED <<test, behavior, options, stub, run_no, file_digest,
                   run_metrics, removed, consumer, localStore, pendingWrites,
                   metrics, errCount, stderr>>
    /\ UNCHANGED <<process_result, reproducible>>
    /\ UNCHANGED <<buildVars, goalVars>>

\* The build of the warnings test ends once every process action is done.
assert_success ==
    /\ test = "warns" /\ testpc = "running"
    /\ buildStatus = "running"
    /\ \A p \in DOMAIN procs : procs[p].state = "Completed"
    /\ buildStatus' = "success"
    /\ testpc' = "done"
    /\ UNCHANGED <<test, behavior, options, stub, run_no, file_digest,
                   run_metrics, removed, procs, consumer, localStore,
                   pendingWrites, metrics, errCount, stderr, execCount>>
    /\ UNCHANGED <<process_result, reproducible>>
    /\ UNCHANGED <<buildVars, goalVars>>

\* run() of test_lazy_fetch_backtracking, up to rule_runner.request: a new
\* RuleRunner (a new scheduler with its own metrics) on an isolated, empty
\* local store, asked for the ProcessOutputEntries of the one Process.
rule_runner_request ==
    /\ test = "lazy" /\ testpc \in {"start", "removed"}
    /\ procs' = [p \in {1} |-> PendingNode]
    /\ execCount' = [p \in {1} |-> 0]
    /\ consumer' = [pc |-> "waiting", step |-> 0, entries |-> <<>>]
    /\ localStore' = EmptyStore
    /\ metrics' = ZeroMetrics
    /\ errCount' = [c \in FailureClasses |-> 0]
    /\ process_result' = PendingNode
    /\ buildStatus' = "running"
    /\ testpc' = "running"
    /\ UNCHANGED <<test, behavior, options, stub, run_no, file_digest,
                   run_metrics, removed, pendingWrites, stderr>>
    /\ UNCHANGED reproducible
    /\ UNCHANGED <<buildVars, goalVars>>

\* The rest of run(): the request has returned one FileEntry; wait for the
\* asynchronous cache writes, then return the digest and the metrics.
run_return ==
    /\ test = "lazy" /\ testpc = "running"
    /\ buildStatus = "success"
    /\ Len(consumer.entries) = 1
    /\ pendingWrites = {}
    /\ file_digest' = [file_digest EXCEPT ![run_no] = consumer.entries[1].file_digest]
    /\ run_metrics' = [run_metrics EXCEPT ![run_no] = metrics]
    /\ testpc' = IF run_no = 1 THEN "returned" ELSE "done"
    /\ UNCHANGED <<test, behavior, options, stub, run_no, removed, procs,
                   consumer, localStore, pendingWrites, metrics, errCount,
                   stderr, buildStatus, execCount>>
    /\ UNCHANGED <<process_result, reproducible>>
    /\ UNCHANGED <<buildVars, goalVars>>

\* assert cas.remove(file_digest1): the file's content leaves the remote
\* blob store; the action-cache entry and the directory manifest stay.
cas_remove ==
    /\ test = "lazy" /\ testpc = "returned"
    /\ removed' = (file_digest[1] \in stub.blobs.files)
    /\ stub' = [stub EXCEPT !.blobs.files = @ \ {file_digest[1]}]
    /\ run_no' = 2
    /\ testpc' = "removed"
    /\ UNCHANGED <<test, behavior, options, file_digest, run_metrics, procs,
                   consumer, localStore, pendingWrites, metrics, errCount,
                   stderr, buildStatus, execCount>>
    /\ UNCHANGED <<process_result, reproducible>>
    /\ UNCHANGED <<buildVars, goalVars>>

(***************************************************************************)
(* Remote cache client and process executor (4.3, 4.4)                     *)
(***************************************************************************)
AfterCacheFailure_abort(status) == "failed"

\* The build's status after a remote-cache failure: the failure is
\* downgraded to a warning and the build goes on.
AfterCacheFailure(status) == status

\* A node's execution begins; a node re-created by backtracking does not
\* consult the cache that gave it the stale entry.
StartProcess(p) ==
    /\ buildStatus = "running"
    /\ p \in DOMAIN procs
    /\ procs[p].state = "Pending"
    /\ procs' = [procs EXCEPT ![p].state = "Running",
                              ![p].pc = IF options.remote_cache_read
                                           /\ procs[p].attempt = 0
                                        THEN "lookup" ELSE "exec"]
    /\ UNCHANGED <<test, behavior, options, stub, testpc, run_no,
                   file_digest, run_metrics, removed, consumer, localStore,
                   pendingWrites, metrics, errCount, stderr, buildStatus,
                   execCount>>
    /\ UNCHANGED <<process_result, reproducible>>
    /\ UNCHANGED <<buildVars, goalVars>>

\* read(actionFingerprint): an error is logged under the policy and treated
\* as a miss; a hit completes the node with the entry's digest, and with
\* lazy fetch nothing is materialized.
CacheRead(p) ==
    /\ buildStatus = "running"
    /\ p \in DOMAIN procs
    /\ procs[p].state = "Running" /\ procs[p].pc = "lookup"
    /\ LET fp == ActionFingerprint(ProcessOf(test, p))
           counted == [metrics EXCEPT !.remote_cache_requests = @ + 1]
       IN
       IF stub.ac_always_errors THEN
          /\ metrics' = counted
          /\ stderr' = LoggedFailure("read from", "Unavailable")
          /\ errCount' = [errCount EXCEPT !["read from"] = @ + 1]
          /\ buildStatus' = AfterCacheFailure(buildStatus)
          /\ procs' = [procs EXCEPT ![p].pc = "exec"]
          /\ UNCHANGED localStore
       ELSE IF fp \in DOMAIN stub.action_cache THEN
          /\ metrics' = [counted EXCEPT !.remote_cache_requests_cached = @ + 1]
          /\ procs' = [procs EXCEPT
                         ![p].state = "Completed",
                         ![p].pc = "none",
                         ![p].result = [output_digest |-> stub.action_cache[fp],
                                        exit_code |-> 0,
                                        source |-> "remote_cache"]]
          /\ localStore' = IF options.remote_cache_eager_fetch
                           THEN Fetch(localStore, stub.blobs,
                                      stub.action_cache[fp])
                           ELSE localStore
          /\ UNCHANGED <<stderr, errCount, buildStatus>>
       ELSE
          /\ metrics' = [counted EXCEPT !.remote_cache_requests_uncached = @ + 1]
          /\ procs' = [procs EXCEPT ![p].pc = "exec"]
          /\ UNCHANGED <<stderr, errCount, buildStatus, localStore>>
    /\ UNCHANGED <<test, behavior, options, stub, testpc, run_no,
                   file_digest, run_metrics, removed, consumer,
                   pendingWrites, execCount>>
    /\ UNCHANGED <<process_result, reproducible>>
    /\ UNCHANGED <<buildVars, goalVars>>

\* Whether the output of this execution of the node can be saved: that of
\* a first execution can, that of a re-execution unless what it needs is
\* no longer available.
Reproduces(node) == reproducible \/ node.attempt = 0

\* The process runs locally; its output is saved in the local store, the
\* node completes, and the cache write is started without being awaited.
ExecuteProcess(p) ==
    /\ buildStatus = "running"
    /\ p \in DOMAIN procs
    /\ procs[p].state = "Running" /\ procs[p].pc = "exec"
    /\ LET process == ProcessOf(test, p)
           tree == ProcessOutput(process, run_no)
       IN
       /\ localStore' = IF Reproduces(procs[p])
                        THEN StoreTree(localStore, tree) ELSE localStore
       /\ procs' = [procs EXCEPT
                      ![p].state = "Completed",
                      ![p].pc = "none",
                      ![p].result = [output_digest |-> DirDigestOf(tree),
                                     exit_code |-> 0,
                                     source |-> "local"]]
       /\ pendingWrites' =
            IF options.remote_cache_write /\ Reproduces(procs[p])
            THEN pendingWrites \cup
                   {[fingerprint |-> ActionFingerprint(process),
                     tree |-> tree, stage |-> "blobs"]}
            ELSE pendingWrites
    /\ execCount' = [execCount EXCEPT ![p] = @ + 1]
    /\ UNCHANGED <<test, behavior, options, stub, testpc, run_no,
                   file_digest, run_metrics, removed, consumer, metrics,
                   errCount, stderr, buildStatus>>
    /\ UNCHANGED <<process_result, reproducible>>
    /\ UNCHANGED <<buildVars, goalVars>>

\* write(actionFingerprint, result), first half: the output's content is
\* uploaded to the blob store.
WriteBlobs(w) ==
    /\ w \in pendingWrites /\ w.stage = "blobs"
    /\ IF stub.cas_always_errors THEN
          /\ stderr' = LoggedFailure("write to",
                  "InvalidArgument: StubCAS is configured to always fail")
          /\ errCount' = [errCount EXCEPT !["write to"] = @ + 1]
          /\ buildStatus' = AfterCacheFailure(buildStatus)
          /\ pendingWrites' = pendingWrites \ {w}
          /\ UNCHANGED stub
       ELSE
          /\ stub' = [stub EXCEPT !.blobs = StoreTree(@, w.tree)]
          /\ pendingWrites' = (pendingWrites \ {w}) \cup
                                 {[w EXCEPT !.stage = "action_result"]}
          /\ UNCHANGED <<stderr, errCount, buildStatus>>
    /\ UNCHANGED <<test, behavior, options, testpc, run_no, file_digest,
                   run_metrics, removed, procs, consumer, localStore,
                   metrics, execCount>>
    /\ UNCHANGED <<process_result, reproducible>>
    /\ UNCHANGED <<buildVars, goalVars>>

\* write(actionFingerprint, result), second half: the action-cache entry.
WriteActionResult(w) ==
    /\ w \in pendingWrites /\ w.stage = "action_result"
    /\ IF stub.ac_always_errors THEN
          /\ stderr' = LoggedFailure("write to", "Unavailable")
          /\ errCount' = [errCount EXCEPT !["write to"] = @ + 1]
          /\ buildStatus' = AfterCacheFailure(buildStatus)
          /\ UNCHANGED stub
       ELSE
          /\ stub' = [stub EXCEPT !.action_cache =
                        (w.fingerprint :> DirDigestOf(w.tree)) @@ @]
          /\ UNCHANGED <<stderr, errCount, buildStatus>>
    /\ pendingWrites' = pendingWrites \ {w}
    /\ UNCHANGED <<test, behavior, options, testpc, run_no, file_digest,
                   run_metrics, removed, procs, consumer, localStore,
                   metrics, execCount>>
    /\ UNCHANGED <<process_result, reproducible>>
    /\ UNCHANGED <<buildVars, goalVars>>

(***************************************************************************)
(* entries_from_process and the lazy-fetch backtracking (4.1, 4.3)         *)
(***************************************************************************)
entries_from_process_without_contents == <<"DigestEntries">>

\* The rule's requests, in order: DigestContents to force the file content
\* to be loaded, then the DigestEntries it returns.
entries_from_process == <<"DigestContents", "DigestEntries">>

\* The entries of a directory digest, one FileEntry per path.
EntriesOf(digest) ==
    LET paths == DOMAIN digest.manifest
        order == CHOOSE s \in [1..Cardinality(paths) -> paths] :
                    \A i, j \in DOMAIN s : i # j => s[i] # s[j]
    IN [i \in DOMAIN order |->
          [path |-> order[i], file_digest |-> digest.manifest[order[i]]]]

\* materialize(digest): the local store, then the remote store.
CanLoad(kind, digest) ==
    LET fetched == Fetch(localStore, stub.blobs, digest) IN
    IF kind = "DigestContents" THEN HasContents(fetched, digest)
    ELSE HasManifest(fetched, digest)

\* The rule body starts once its parameter, the ProcessResult, is there.
EntriesStart ==
    /\ buildStatus = "running"
    /\ consumer.pc = "waiting"
    /\ process_result.state = "Completed"
    /\ consumer' = [consumer EXCEPT !.pc = "running", !.step = 1]
    /\ UNCHANGED <<test, behavior, options, stub, testpc, run_no,
                   file_digest, run_metrics, removed, procs, localStore,
                   pendingWrites, metrics, errCount, stderr, buildStatus,
                   execCount>>
    /\ UNCHANGED <<process_result, reproducible>>
    /\ UNCHANGED <<buildVars, goalVars>>

CanBacktrack_always(node) == TRUE

\* Backtracking re-executes a node once: content that is missing after
\* the node was executed again cannot be reproduced.
CanBacktrack(node) == node.attempt = 0

\* One Get of the rule. Content that is neither local nor in the remote
\* blob store is content-missing: the node that produced the digest and
\* the node whose result embeds it are invalidated, the backtrack is
\* counted and the rule waits again for its parameter; after a
\* re-execution the error is fatal. After the last Get the rule returns
\* its entries.
EntriesGet ==
    /\ buildStatus = "running"
    /\ consumer.pc = "running"
    /\ process_result.state = "Completed"
    /\ LET digest == process_result.result.output_digest
           kind == entries_from_process[consumer.step]
       IN
       IF CanLoad(kind, digest) THEN
          /\ localStore' = Fetch(localStore, stub.blobs, digest)
          /\ IF consumer.step = Len(entries_from_process)
             THEN /\ consumer' = [pc |-> "done", step |-> 0,
                                    entries |-> EntriesOf(digest)]
                  /\ buildStatus' = "success"
             ELSE /\ consumer' = [consumer EXCEPT !.step = @ + 1]
                  /\ UNCHANGED buildStatus
          /\ UNCHANGED <<procs, process_result, metrics>>
       ELSE IF CanBacktrack(procs[1]) THEN
          /\ procs' = [procs EXCEPT ![1].state = "Invalidated",
                                    ![1].result = NoResult]
          /\ process_result' = [process_result EXCEPT
                                  !.state = "Invalidated",
                                  !.result = NoResult]
          /\ metrics' = [metrics EXCEPT !.backtrack_attempts = @ + 1]
          /\ consumer' = [consumer EXCEPT !.pc = "waiting", !.step = 0]
          /\ UNCHANGED <<localStore, buildStatus>>
       ELSE
          /\ buildStatus' = "failed"
          /\ consumer' = [consumer EXCEPT !.pc = "failed", !.step = 0]
          /\ UNCHANGED <<procs, process_result, metrics, localStore>>
    /\ UNCHANGED <<test, behavior, options, stub, testpc, run_no,
                   file_digest, run_metrics, removed, pendingWrites,
                   errCount, stderr, execCount>>
    /\ UNCHANGED reproducible
    /\ UNCHANGED <<buildVars, goalVars>>

Recreate_in_place(p) ==
    /\ buildStatus = "running"
    /\ p \in DOMAIN procs
    /\ procs[p].state = "Invalidated"
    /\ procs' = [procs EXCEPT ![p].state = "Running", ![p].pc = "exec",
                              ![p].attempt = @ + 1]
    /\ UNCHANGED <<test, behavior, options, stub, testpc, run_no,
                   file_digest, run_metrics, removed, consumer, localStore,
                   pendingWrites, metrics, errCount, stderr, buildStatus,
                   execCount>>
    /\ UNCHANGED <<process_result, reproducible>>
    /\ UNCHANGED <<buildVars, goalVars>>

\* An invalidated node is created again, to be executed from scratch.
Recreate(p) ==
    /\ buildStatus = "running"
    /\ p \in DOMAIN procs
    /\ procs[p].state = "Invalidated"
    /\ procs' = [procs EXCEPT ![p] = [PendingNode EXCEPT
                                        !.attempt = procs[p].attempt + 1]]
    /\ UNCHANGED <<test, behavior, options, stub, testpc, run_no,
                   file_digest, run_metrics, removed, consumer, localStore,
                   pendingWrites, metrics, errCount, stderr, buildStatus,
                   execCount>>
    /\ UNCHANGED <<process_result, reproducible>>
    /\ UNCHANGED <<buildVars, goalVars>>

\* The node of the rule's parameter starts: it asks for the result of the
\* Process.
ResultStart ==
    /\ buildStatus = "running"
    /\ process_result.state = "Pending"
    /\ process_result' = [process_result EXCEPT !.state = "Running",
                                                !.pc = "await"]
    /\ UNCHANGED <<test, behavior, options, stub, testpc, run_no,
                   file_digest, run_metrics, removed, procs, consumer,
                   localStore, pendingWrites, metrics, errCount, stderr,
                   buildStatus, execCount, reproducible>>
    /\ UNCHANGED <<buildVars, goalVars>>

\* The Process has a result: the ProcessResult is made from it and holds
\* its output digest.
ResultReturn ==
    /\ buildStatus = "running"
    /\ process_result.state = "Running"
    /\ procs[1].state = "Completed"
    /\ process_result' = [process_result EXCEPT !.state = "Completed",
                                                !.pc = "none",
                                                !.result = procs[1].result]
    /\ UNCHANGED <<test, behavior, options, stub, testpc, run_no,
                   file_digest, run_metrics, removed, procs, consumer,
                   localStore, pendingWrites, metrics, errCount, stderr,
                   buildStatus, execCount, reproducible>>
    /\ UNCHANGED <<buildVars, goalVars>>

\* The invalidated ProcessResult node is created again.
RecreateResult ==
    /\ buildStatus = "running"
    /\ process_result.state = "Invalidated"
    /\ process_result' = [PendingNode EXCEPT
                             !.attempt = process_result.attempt + 1]
    /\ UNCHANGED <<test, behavior, options, stub, testpc, run_no,
                   file_digest, run_metrics, removed, procs, consumer,
                   localStore, pendingWrites, metrics, errCount, stderr,
                   buildStatus, execCount, reproducible>>
    /\ UNCHANGED <<buildVars, goalVars>>

CacheNext ==
    \/ run_pants
    \/ assert_success
    \/ rule_runner_request
    \/ run_return
    \/ cas_remove
    \/ \E p \in 1..MaxProcs : StartProcess(p)
    \/ \E p \in 1..MaxProcs : CacheRead(p)
    \/ \E p \in 1..MaxProcs : ExecuteProcess(p)
    \/ \E w \in pendingWrites : WriteBlobs(w)
    \/ \E w \in pendingWrites : WriteActionResult(w)
    \/ ResultStart
    \/ ResultReturn
    \/ RecreateResult
    \/ EntriesStart
    \/ EntriesGet
    \/ \E p \in 1..MaxProcs : Recreate(p)

CacheSpec == CacheInit /\ [][CacheNext]_vars

\* The scheduler runs every task that can run: some enabled step is
\* eventually taken.
FairCacheSpec == CacheSpec /\ WF_vars(CacheNext)

\* The tests, also when a re-execution cannot reproduce its output.
BacktrackSpec == BacktrackInit /\ [][CacheNext]_vars

FairBacktrackSpec == BacktrackSpec /\ WF_vars(CacheNext)

(***************************************************************************)
(* Properties of the remote cache client                                   *)
(***************************************************************************)
\* 1 and the doubling thresholds 2, 4, 8, ...
DoublingCounts == {2 ^ i : i \in 0..(MaxProcs + 1)}

\* The message the test expects for a failure class and a count.
ExpectedMessage(class, k) ==
    IF class = "read from" THEN read_err(k) ELSE write_err(k)

\* C1: under `backoff`, for each failure class the k-th failure is on
\* stderr exactly when it has happened and k is 1 or a doubling threshold,
\* and every message on stderr states the cumulative count at which it
\* was logged.
C1_BackoffReportsAtDoublingCounts ==
    behavior = "backoff" =>
        /\ \A c \in FailureClasses : \A k \in 1..(MaxProcs + 1) :
              (ExpectedMessage(c, k) \in stderr)
                  <=> (k <= errCount[c] /\ k \in DoublingCounts)
        /\ stderr \subseteq {ExpectedMessage(c, k) :
                                c \in FailureClasses, k \in 1..(MaxProcs + 1)}

\* Four failures of each class under `backoff`: 1, 2 and 4 reported, 3 not.
C1_Witness ==
    /\ behavior = "backoff"
    /\ errCount["read from"] >= 4 /\ errCount["write to"] >= 4
    /\ {read_err(1), read_err(2), read_err(4)} \subseteq stderr
    /\ {write_err(1), write_err(2), write_err(4)} \subseteq stderr
    /\ read_err(3) \notin stderr /\ write_err(3) \notin stderr

\* C2: under `first_only`, stderr holds exactly the occurrence-1 message of
\* each class that has failed at least once, whatever the other class did.
C2_FirstOnlyReportsFirstOfEachClass ==
    behavior = "first_only" =>
        stderr = {ExpectedMessage(c, 1) :
                     c \in {x \in FailureClasses : errCount[x] >= 1}}

\* Reads have failed four times and been reported once while no write has
\* failed yet.
C2_Witness ==
    /\ behavior = "first_only"
    /\ errCount["read from"] >= 4 /\ errCount["write to"] = 0
    /\ stderr = {read_err(1)}

\* C3: under `ignore`, nothing is ever on stderr.
C3_IgnoreReportsNothing ==
    behavior = "ignore" => stderr = {}

\* Four failures of each class under `ignore`.
C3_Witness ==
    /\ behavior = "ignore"
    /\ errCount["read from"] >= 4 /\ errCount["write to"] >= 4

\* C4: with every action-cache read and every blob write failing, under
\* each policy the build never fails, every completed action was computed
\* locally exactly once, and the build ends in success.
C4_CacheFailureNeverAbortsBuild ==
    /\ [](test = "warns" =>
            /\ buildStatus # "failed"
            /\ \A p \in DOMAIN procs :
                  procs[p].state = "Completed" =>
                      /\ procs[p].result.source = "local"
                      /\ execCount[p] = 1)
    /\ \A b \in RemoteCacheWarningsBehavior :
          (test = "warns" /\ behavior = b) ~> (buildStatus = "success")

\* A build that succeeded although every read and a write failed.
C4_Witness ==
    /\ test = "warns" /\ buildStatus = "success"
    /\ errCount["read from"] = Cardinality(DOMAIN procs)
    /\ errCount["read from"] >= 2
    /\ errCount["write to"] >= 1

(***************************************************************************)
(* Properties of lazy fetch and backtracking                               *)
(***************************************************************************)
\* The second run has hit the action cache while the content it names is
\* neither local nor in the remote blob store.
StaleHit ==
    /\ test = "lazy" /\ run_no = 2 /\ removed
    /\ ~options.remote_cache_eager_fetch
    /\ metrics.remote_cache_requests_cached >= 1

\* C5: a request that hits an action-cache entry whose content was deleted
\* backtracks at most once while it runs and, once it has returned, has
\* backtracked exactly once, has made exactly one remote-cache request,
\* counted as cached, and has run the process locally exactly once; and
\* such a request does return successfully.
C5_StaleHitBacktracksOnce ==
    /\ [](StaleHit =>
            /\ metrics.backtrack_attempts <= 1
            /\ metrics.remote_cache_requests = 1
            /\ metrics.remote_cache_requests_cached = 1
            /\ metrics.remote_cache_requests_uncached = 0
            /\ execCount[1] <= 1
            /\ (buildStatus = "success" =>
                   /\ metrics.backtrack_attempts = 1
                   /\ execCount[1] = 1
                   /\ procs[1].state = "Completed"
                   /\ procs[1].result.source = "local"))
    /\ (StaleHit ~> (StaleHit /\ testpc = "done"
                        /\ run_metrics[2].backtrack_attempts = 1
                        /\ run_metrics[2].remote_cache_requests = 1
                        /\ run_metrics[2].remote_cache_requests_cached = 1))

\* The second run has returned after its one backtrack and re-execution.
C5_Witness ==
    /\ StaleHit /\ testpc = "done" /\ buildStatus = "success"
    /\ run_metrics[2].backtrack_attempts = 1
    /\ execCount[1] = 1

C7_FirstRunPopulatesCache ==
    /\ [](test = "lazy" =>
            /\ action_cache_len <= 1
            /\ (run_no = 1 =>
                   /\ metrics.backtrack_attempts = 0
                   /\ metrics.remote_cache_requests_cached = 0
                   /\ metrics.remote_cache_requests <= 1)
            /\ (run_metrics[1] # NoMetrics =>
                   /\ run_metrics[1] =
                        [ZeroMetrics EXCEPT
                            !.remote_cache_requests = 1,
                            !.remote_cache_requests_uncached = 1]
                   /\ action_cache_len = 1))
    /\ ((test = "lazy") ~> (action_cache_len = 1))

\* The rule has returned its entries while the action cache is still
\* empty: the write lands after the rule's completion.
C7_Witness ==
    /\ test = "lazy" /\ run_no = 1
    /\ consumer.pc = "done" /\ buildStatus = "success"
    /\ action_cache_len = 0
    /\ pendingWrites # {}

(***************************************************************************)
(* Artifact trees (4.2): merge and prefix, on digests                      *)
(***************************************************************************)
\* os.path.join(a, b)
PathJoin(a, b) == IF a = "" THEN b ELSE a \o "/" \o b

\* The digest of the tree with the given manifest.
DigestOfManifest(m) == [manifest |-> m, entries |-> Cardinality(DOMAIN m)]

\* The digests of a list, as a set.
Range(seq) == {seq[i] : i \in DOMAIN seq}

\* Whether two of the digests define a path with different content.
MergeConflict(digests) ==
    \E d1 \in Range(digests), d2 \in Range(digests) :
        \E q \in DOMAIN d1.manifest \cap DOMAIN d2.manifest :
            d1.manifest[q] # d2.manifest[q]

\* MergeDigests: the structural union of the trees.
MergeDigests(digests) ==
    LET paths == UNION {DOMAIN d.manifest : d \in Range(digests)} IN
    DigestOfManifest(
        [q \in paths |->
            LET d == CHOOSE d \in Range(digests) : q \in DOMAIN d.manifest
            IN d.manifest[q]])

\* AddPrefix: every path re-rooted under the prefix, content unchanged.
AddPrefix(digest, prefix) ==
    LET old == DOMAIN digest.manifest IN
    DigestOfManifest(
        [q \in {PathJoin(prefix, o) : o \in old} |->
            digest.manifest[CHOOSE o \in old : PathJoin(prefix, o) = q]])

(***************************************************************************)
(* build_pkg.py: targets, requests and results                             *)
(***************************************************************************)
Units == 1..NumUnits

TargetKinds == {"first_party", "third_party", "other"}

\* The kinds the target at address u may have: a package of the kind its
\* address stands for (odd: first-party, even: third-party), or a target
\* that is no package.
KindsAt(u) == {IF u % 2 = 1 THEN "first_party" ELSE "third_party", "other"}

IsBuildable_any(tgt) == TRUE

\* is_first_party_package_target(tgt) or is_third_party_package_target(tgt)
IsBuildable(tgt) == tgt.kind \in {"first_party", "third_party"}

\* The characters path_safe keeps; every other character becomes "_".
PathSafeChars == {"a", "b", "c", "d", "m", "i", "n", "_", "-", "."}

RECURSIVE path_safe(_)
path_safe(chars) ==
    IF chars = <<>> THEN ""
    ELSE (IF Head(chars) \in PathSafeChars THEN Head(chars) ELSE "_")
            \o path_safe(Tail(chars))

\* The import path "main", as characters.
MainImportPath == <<"m", "a", "i", "n">>

\* The name of the package at address u.
PackageName(u) ==
    (CASE u % 4 = 0 -> <<"a">> [] u % 4 = 1 -> <<"b">>
       [] u % 4 = 2 -> <<"c">> [] OTHER -> <<"d">>)
        \o (IF u > 4 THEN <<"-">> ELSE <<>>)

\* The path of the module every package belongs to (GoThirdPartyModulePathField).
ModulePath == <<"m">>

\* The import path address u declares (GoImportPathField): module path,
\* "/", package name.
DeclaredImportPath(u) == ModulePath \o <<"/">> \o PackageName(u)

\* The characters of a sequence as one string.
RECURSIVE Concat(_)
Concat(chars) ==
    IF chars = <<>> THEN "" ELSE Head(chars) \o Concat(Tail(chars))

\* A request object; a frozen dataclass is equal and hashed by its fields,
\* whichever object it is.
BuildGoPackageRequest_by_identity(address, is_main, id) ==
    [address |-> address, is_main |-> is_main, id |-> id]

BuildGoPackageRequest(address, is_main, id) ==
    [address |-> address, is_main |-> is_main]

\* The fields of a request.
RequestValue(request) ==
    [address |-> request.address, is_main |-> request.is_main]

RequestValues == [address : Units, is_main : BOOLEAN]

\* BuiltGoPackage(digest, import_paths_to_pkg_a_files)
BuiltGoPackage(digest, import_paths_to_pkg_a_files) ==
    [digest |-> digest,
     import_paths_to_pkg_a_files |-> import_paths_to_pkg_a_files]

\* The addresses of a set in ascending order.
RECURSIVE SortedSeq(_)
SortedSeq(S) ==
    IF S = {} THEN <<>>
    ELSE LET least == CHOOSE x \in S : \A y \in S : x <= y
         IN <<least>> \o SortedSeq(S \ {least})

\* Two digits for a small number, as file content.
BytesOf(n) == <<(n \div ByteBase) % ByteBase, n % ByteBase>>

\* The source files of a package: one Go file whose content is the
\* package's own, and an assembly file if the target has one.
SourceFiles(tgt, subpath) ==
    [digest |-> DigestOfManifest(
                  [q \in {PathJoin(subpath, "f.go")} |->
                      FileDigestOf(BytesOf(tgt.address))]),
     go_files |-> <<"f.go">>,
     s_files |-> IF tgt.has_assembly THEN <<"f.s">> ELSE <<>>]

(***************************************************************************)
(* The targets and the goal's requests                                     *)
(***************************************************************************)
\* The target a BUILD file declares at address u.
Target(u, kind, dependencies) ==
    [address |-> u, kind |-> kind, dependencies |-> dependencies,
     import_path |-> DeclaredImportPath(u),
     has_assembly |-> (u % 2 = 0)]

\* The addresses a build of the addresses in S requests: S and, through
\* buildable targets, their buildable dependencies.
RECURSIVE Requested(_, _)
Requested(tgts, S) ==
    LET more == S \cup {d \in Units :
                    /\ IsBuildable(tgts[d])
                    /\ \E u \in S : /\ IsBuildable(tgts[u])
                                     /\ d \in tgts[u].dependencies}
    IN IF more = S THEN S ELSE Requested(tgts, more)

\* The targets the build reads: those requested and their dependencies.
Read(tgts, S) ==
    Requested(tgts, S) \cup
        UNION {tgts[u].dependencies :
                  u \in {r \in Requested(tgts, S) : IsBuildable(tgts[r])}}

\* BUILD files that differ only in targets the build never requests are
\* one input: such targets have no dependencies and, when the build never
\* reads them, are packages. The addresses requested are the first ones.
Canonical(tgts, S) ==
    /\ \A u \in Units :
        /\ u \notin Requested(tgts, S) => tgts[u].dependencies = {}
        /\ u \notin Read(tgts, S) => IsBuildable(tgts[u])
    /\ \E n \in Units : Requested(tgts, S) = 1..n

\* The sets of at most n dependency edges <<from, to>>.
RECURSIVE EdgeSets(_)
EdgeSets(n) ==
    IF n = 0 THEN {{}}
    ELSE LET fewer == EdgeSets(n - 1)
         IN fewer \cup {E \cup {e} : E \in fewer, e \in Units \X Units}

NoLocals == [none |-> TRUE]

\* A node as created on its first request.
PendingBuild ==
    [state |-> "Pending", pc |-> "none", subs |-> <<>>, locals |-> NoLocals,
     result |-> NoResult, error |-> "none"]

BuildInit ==
    /\ \E E \in EdgeSets(MaxEdges) :
        \E kind \in [Units -> TargetKinds] :
            /\ \A u \in Units : kind[u] \in KindsAt(u)
            /\ targets = [u \in Units |->
                             Target(u, kind[u],
                                    {d \in Units : <<u, d>> \in E})]
    /\ \E is_main \in BOOLEAN :
          roots = <<BuildGoPackageRequest(1, is_main, 1),
                    BuildGoPackageRequest(1, is_main, 2)>>
    /\ Canonical(targets, {roots[i].address : i \in DOMAIN roots})
    /\ rootState = [i \in DOMAIN roots |-> "todo"]
    /\ observed = [i \in DOMAIN roots |-> NoResult]
    /\ nodes = <<>>
    /\ nextId = Len(roots)
    /\ bodyRuns = [v \in RequestValues |-> 0]
    /\ compileRuns = [v \in RequestValues |-> 0]
    /\ test = "none"
    /\ behavior = "backoff"
    /\ options = LazyOptions
    /\ stub = PlainStub
    /\ testpc = "none"
    /\ run_no = 1
    /\ file_digest = [r \in 1..2 |-> NoDigest]
    /\ run_metrics = [r \in 1..2 |-> NoMetrics]
    /\ removed = FALSE
    /\ procs = <<>>
    /\ consumer = NoConsumer
    /\ localStore = EmptyStore
    /\ pendingWrites = {}
    /\ metrics = ZeroMetrics
    /\ errCount = [c \in FailureClasses |-> 0]
    /\ stderr = {}
    /\ buildStatus = "idle"
    /\ execCount = <<>>
    /\ process_result = AbsentNode
    /\ reproducible = TRUE
    /\ GoalIdle

\* An import path a target may declare instead: "main" itself, or a path
\* that differs from the first package's only where path_safe escapes.
AltImportPath(u) ==
    IF u % 2 = 1 THEN MainImportPath ELSE <<"m", "_", "b">>

\* The requests of a goal for one package both as a dependency and as an
\* entry point, for two entry points, and for two packages as dependencies.
GoalRequests ==
    {<<BuildGoPackageRequest(1, FALSE, 1), BuildGoPackageRequest(1, TRUE, 2)>>}
        \cup {<<BuildGoPackageRequest(1, m, 1), BuildGoPackageRequest(2, m, 2)>> :
                  m \in BOOLEAN}

\* A build of packages whose declared import paths may coincide, may be
\* "main" and may be equal once escaped, for two requests of the goal.
PackageInit ==
    /\ roots \in GoalRequests
    /\ \E E \in EdgeSets(MaxDeps), alt \in SUBSET Units :
          targets = [u \in Units |->
                       [Target(u, IF u % 2 = 1 THEN "first_party"
                                  ELSE "third_party",
                               {d \in Units : <<u, d>> \in E})
                          EXCEPT !.import_path =
                                    IF u \in alt THEN AltImportPath(u) ELSE @]]
    /\ LET asked == Requested(targets, {roots[i].address : i \in DOMAIN roots})
       IN \A u \in Units \ asked :
             /\ targets[u].dependencies = {}
             /\ targets[u].import_path = DeclaredImportPath(u)
    /\ rootState = [i \in DOMAIN roots |-> "todo"]
    /\ observed = [i \in DOMAIN roots |-> NoResult]
    /\ nodes = <<>>
    /\ nextId = Len(roots)
    /\ bodyRuns = [v \in RequestValues |-> 0]
    /\ compileRuns = [v \in RequestValues |-> 0]
    /\ test = "none"
    /\ behavior = "backoff"
    /\ options = LazyOptions
    /\ stub = PlainStub
    /\ testpc = "none"
    /\ run_no = 1
    /\ file_digest = [r \in 1..2 |-> NoDigest]
    /\ run_metrics = [r \in 1..2 |-> NoMetrics]
    /\ removed = FALSE
    /\ procs = <<>>
    /\ consumer = NoConsumer
    /\ localStore = EmptyStore
    /\ pendingWrites = {}
    /\ metrics = ZeroMetrics
    /\ errCount = [c \in FailureClasses |-> 0]
    /\ stderr = {}
    /\ buildStatus = "idle"
    /\ execCount = <<>>
    /\ process_result = AbsentNode
    /\ reproducible = TRUE
    /\ GoalIdle

(***************************************************************************)
(* Rule execution engine (4.1)                                             *)
(***************************************************************************)
\* The nodes that wait for a node of S: running, suspended on a batch that
\* holds a request for it.
Waiters(ns, S) ==
    {n \in DOMAIN ns :
        /\ ns[n].state = "Running" /\ ns[n].pc = "await"
        /\ \E i \in DOMAIN ns[n].subs :
              ~ns[n].subs[i].cycle /\ ns[n].subs[i].key \in S}

\* The requesting chain of the nodes of S: S and every node that waits,
\* directly or through other nodes, for a node of S.
RECURSIVE RequestingChain(_, _)
RequestingChain(ns, S) ==
    LET more == S \cup Waiters(ns, S)
    IN IF more = S THEN S ELSE RequestingChain(ns, more)

\* The memoization table after the requests of a batch: a request whose
\* key has no node creates one, any other attaches to the node there is.
WithNodes(ns, requests) ==
    LET new == {requests[i] : i \in DOMAIN requests} \ DOMAIN ns
    IN ns @@ [r \in new |-> PendingBuild]

\* The goal asks for its i-th request.
RootRequest(i) ==
    /\ i \in DOMAIN roots
    /\ rootState[i] = "todo"
    /\ nodes' = WithNodes(nodes, <<roots[i]>>)
    /\ rootState' = [rootState EXCEPT ![i] = "waiting"]
    /\ UNCHANGED <<targets, roots, observed, nextId, bodyRuns, compileRuns>>
    /\ UNCHANGED <<cacheVars, goalVars>>

\* The goal's i-th request returns what its node ended with.
RootReturn(i) ==
    /\ i \in DOMAIN roots
    /\ rootState[i] = "waiting"
    /\ nodes[roots[i]].state \in {"Completed", "Failed"}
    /\ observed' = [observed EXCEPT ![i] =
                       [state |-> nodes[roots[i]].state,
                        result |-> nodes[roots[i]].result,
                        error |-> nodes[roots[i]].error]]
    /\ rootState' = [rootState EXCEPT ![i] = "done"]
    /\ UNCHANGED <<targets, roots, nodes, nextId, bodyRuns, compileRuns>>
    /\ UNCHANGED <<cacheVars, goalVars>>

\* A pending node starts to run the rule body.
StartNode(k) ==
    /\ k \in DOMAIN nodes
    /\ nodes[k].state = "Pending"
    /\ nodes' = [nodes EXCEPT ![k].state = "Running", ![k].pc = "identity"]
    /\ bodyRuns' = [bodyRuns EXCEPT ![RequestValue(k)] = @ + 1]
    /\ UNCHANGED <<targets, roots, rootState, observed, nextId, compileRuns>>
    /\ UNCHANGED <<cacheVars, goalVars>>

(***************************************************************************)
(* build_pkg.py: build_go_package                                          *)
(***************************************************************************)
\* Lines 61-97: the sources of the target, by its kind.
SourcesOf(tgt) ==
    IF tgt.kind = "first_party"
    THEN LET subpath == PathJoin("src", Concat(PackageName(tgt.address)))
         IN [source_files_subpath |-> subpath] @@ SourceFiles(tgt, subpath)
    ELSE LET subpath == Concat(SubSeq(tgt.import_path, Len(ModulePath) + 1,
                                      Len(tgt.import_path)))
         IN [source_files_subpath |-> subpath] @@ SourceFiles(tgt, subpath)

ImportPathOf_declared(request, original_import_path) == original_import_path

\* Line 99
ImportPathOf(request, original_import_path) ==
    IF request.is_main THEN MainImportPath ELSE original_import_path

buildable_dependencies_unfiltered(tgt) == SortedSeq(tgt.dependencies)

\* Lines 103-108: the dependencies that are packages, in address order.
buildable_dependencies(tgt) ==
    SortedSeq({d \in tgt.dependencies : IsBuildable(targets[d])})

\* Lines 113-117: the import paths of the dependencies, a later dependency
\* overriding an earlier one, and their digests.
UpdatedWith_replacing(mapping, built_deps) ==
    IF built_deps = <<>> THEN mapping
    ELSE built_deps[Len(built_deps)].import_paths_to_pkg_a_files

RECURSIVE UpdatedWith(_, _)
UpdatedWith(mapping, built_deps) ==
    IF built_deps = <<>> THEN mapping
    ELSE UpdatedWith(Head(built_deps).import_paths_to_pkg_a_files @@ mapping,
                     Tail(built_deps))

\* ImportConfig: the generated linkage manifest, one file at CONFIG_PATH.
CONFIG_PATH == "./importcfg"

ImportConfig(import_paths_to_pkg_a_files) ==
    [digest |-> DigestOfManifest(
        [q \in {CONFIG_PATH} |->
            [fingerprint |-> import_paths_to_pkg_a_files,
             serialized_bytes_length |->
                Cardinality(DOMAIN import_paths_to_pkg_a_files)]])]

\* The archive the compiler writes for a package: a function of the
\* package, the import path it is compiled under, its input tree and its
\* assembly.
ArchiveBytes(address, import_path, input_digest, with_assembly) ==
    BytesOf(address) \o <<IF import_path = MainImportPath THEN 1 ELSE 0,
                          input_digest.entries % ByteBase,
                          IF with_assembly THEN 1 ELSE 0>>

\* CompiledGoSources: the output tree of the compile step.
CompiledGoSources(address, import_path, input_digest) ==
    DigestOfManifest([q \in {"__pkg__.a"} |->
        FileDigestOf(ArchiveBytes(address, import_path, input_digest, FALSE))])

\* AssemblyPostCompilation: the archive with the assembly objects added.
AssemblyPostCompilation(address, import_path, input_digest) ==
    DigestOfManifest([q \in {"__pkg__.a"} |->
        FileDigestOf(ArchiveBytes(address, import_path, input_digest, TRUE))])

\* AssemblyPreCompilation: the input tree with the symabis file added.
AssemblyPreCompilation(input_digest, address) ==
    MergeDigests(<<input_digest,
                   DigestOfManifest([q \in {"symabis"} |->
                       FileDigestOf(BytesOf(address))])>>)

\* Lines 61-97: resolve the target; a target that is neither kind of
\* package raises.
ResolveIdentity(k) ==
    /\ k \in DOMAIN nodes
    /\ nodes[k].state = "Running" /\ nodes[k].pc = "identity"
    /\ LET target == targets[k.address] IN
       IF IsBuildable(target)
       THEN nodes' = [nodes EXCEPT
                        ![k].pc = "deps",
                        ![k].locals =
                            [original_import_path |-> target.import_path]
                                @@ SourcesOf(target)]
       ELSE nodes' = [nodes EXCEPT ![k].state = "Failed", ![k].pc = "none",
                                   ![k].error = "AssertionError"]
    /\ UNCHANGED <<targets, roots, rootState, observed, nextId, bodyRuns,
                   compileRuns>>
    /\ UNCHANGED <<cacheVars, goalVars>>

\* Lines 99-111: the import path to compile under, and one request per
\* buildable dependency, issued as one batch. A request for a key of the
\* requesting chain is a cycle error; the others attach or create nodes.
RequestDependencies(k) ==
    /\ k \in DOMAIN nodes
    /\ nodes[k].state = "Running" /\ nodes[k].pc = "deps"
    /\ LET deps == buildable_dependencies(targets[k.address])
           requests == [i \in DOMAIN deps |->
                           BuildGoPackageRequest(deps[i], FALSE, nextId + i)]
           chain == RequestingChain(nodes, {k})
           subs == [i \in DOMAIN deps |->
                       [key |-> requests[i],
                        cycle |-> requests[i] \in chain,
                        found |-> IF requests[i] \in DOMAIN nodes
                                  THEN nodes[requests[i]].state
                                  ELSE "absent"]]
       IN
       /\ nodes' = [WithNodes(nodes, requests) EXCEPT
                      ![k].pc = "await",
                      ![k].subs = subs,
                      ![k].locals =
                          [import_path |->
                              ImportPathOf(k, nodes[k].locals.original_import_path)]
                            @@ nodes[k].locals]
       /\ nextId' = nextId + Len(deps)
    /\ UNCHANGED <<targets, roots, rootState, observed, bodyRuns, compileRuns>>
    /\ UNCHANGED <<cacheVars, goalVars>>

\* The batch fails as soon as one of its requests has failed.
BatchFails(k) ==
    /\ k \in DOMAIN nodes
    /\ nodes[k].state = "Running" /\ nodes[k].pc = "await"
    /\ \E i \in DOMAIN nodes[k].subs :
         LET sub == nodes[k].subs[i] IN
         /\ sub.cycle \/ nodes[sub.key].state = "Failed"
         /\ nodes' = [nodes EXCEPT
                        ![k].state = "Failed", ![k].pc = "none",
                        ![k].locals = NoLocals,
                        ![k].error = IF sub.cycle THEN "cycle"
                                     ELSE nodes[sub.key].error]
    /\ UNCHANGED <<targets, roots, rootState, observed, nextId, bodyRuns,
                   compileRuns>>
    /\ UNCHANGED <<cacheVars, goalVars>>

MultiGet_reversed(ns, subs) ==
    [i \in DOMAIN subs |-> ns[subs[Len(subs) + 1 - i].key].result]

\* Lines 109-111: what the batch returns, one result per request, in the
\* order of the requests.
MultiGet(ns, subs) == [i \in DOMAIN subs |-> ns[subs[i].key].result]

\* Lines 109-125: the batch returns its results in the order of the
\* requests once all are there; the import paths and digests of the
\* dependencies are collected and merged with the import config and the
\* sources into the compiler's input.
MergeInputs(k) ==
    /\ k \in DOMAIN nodes
    /\ nodes[k].state = "Running" /\ nodes[k].pc = "await"
    /\ \A i \in DOMAIN nodes[k].subs :
          /\ ~nodes[k].subs[i].cycle
          /\ nodes[nodes[k].subs[i].key].state = "Completed"
    /\ LET built_deps == MultiGet(nodes, nodes[k].subs)
           import_paths_to_pkg_a_files == UpdatedWith(<<>>, built_deps)
           dep_digests == [i \in DOMAIN built_deps |-> built_deps[i].digest]
           merged_deps_digest == MergeDigests(dep_digests)
           import_config == ImportConfig(import_paths_to_pkg_a_files)
           inputs == <<merged_deps_digest, import_config.digest,
                       nodes[k].locals.digest>>
       IN
       IF MergeConflict(dep_digests) \/ MergeConflict(inputs)
       THEN nodes' = [nodes EXCEPT ![k].state = "Failed", ![k].pc = "none",
                                   ![k].locals = NoLocals,
                                   ![k].error = "merge conflict"]
       ELSE nodes' = [nodes EXCEPT
                        ![k].pc = "compile",
                        ![k].locals =
                            [import_paths_to_pkg_a_files |->
                                 import_paths_to_pkg_a_files,
                             dep_digests |-> dep_digests,
                             input_digest |-> MergeDigests(inputs)]
                                @@ nodes[k].locals]
    /\ UNCHANGED <<targets, roots, rootState, observed, nextId, bodyRuns,
                   compileRuns>>
    /\ UNCHANGED <<cacheVars, goalVars>>

\* Lines 127-163: the compiler's output for the package, through the
\* assembly steps if it has assembly files.
CompilationDigest(address, l) ==
    LET input_digest == IF l.s_files # <<>>
                        THEN AssemblyPreCompilation(l.input_digest, address)
                        ELSE l.input_digest
    IN IF l.s_files # <<>>
       THEN AssemblyPostCompilation(address, l.import_path, input_digest)
       ELSE CompiledGoSources(address, l.import_path, input_digest)

\* Line 165
PathPrefix(import_path) == PathJoin("__pkgs__", path_safe(import_path))

\* Line 167: the archive re-rooted under the package's prefix.
OutputDigest(address, l) ==
    AddPrefix(CompilationDigest(address, l), PathPrefix(l.import_path))

OutputsToMerge_without_dependencies(dep_digests, output_digest) ==
    <<output_digest>>

\* Line 168: [*dep_digests, _output_digest]
OutputsToMerge(dep_digests, output_digest) == dep_digests \o <<output_digest>>

\* Lines 127-170: the optional assembly steps around the compiler, the
\* archive re-rooted under __pkgs__/<path_safe(import_path)>, its entry in
\* the import mapping, and the merge with the dependencies' outputs.
CompileAndPublish(k) ==
    /\ k \in DOMAIN nodes
    /\ nodes[k].state = "Running" /\ nodes[k].pc = "compile"
    /\ LET l == nodes[k].locals
           import_paths_to_pkg_a_files ==
               (l.import_path :>
                    PathJoin(PathPrefix(l.import_path), "__pkg__.a"))
                   @@ l.import_paths_to_pkg_a_files
           outputs == OutputsToMerge(l.dep_digests,
                                     OutputDigest(k.address, l))
       IN
       IF MergeConflict(outputs)
       THEN nodes' = [nodes EXCEPT ![k].state = "Failed", ![k].pc = "none",
                                   ![k].locals = NoLocals,
                                   ![k].error = "merge conflict"]
       ELSE nodes' = [nodes EXCEPT
                        ![k].state = "Completed", ![k].pc = "none",
                        ![k].locals = NoLocals,
                        ![k].result =
                            BuiltGoPackage(MergeDigests(outputs),
                                           import_paths_to_pkg_a_files)]
    /\ compileRuns' = [compileRuns EXCEPT ![RequestValue(k)] = @ + 1]
    /\ UNCHANGED <<targets, roots, rootState, observed, nextId, bodyRuns>>
    /\ UNCHANGED <<cacheVars, goalVars>>

\* The requests there can be: of the goal, and of the rule for a dependency.
Requests ==
    {BuildGoPackageRequest(u, m, id) :
        u \in Units, m \in BOOLEAN, id \in 1..nextId}

BuildNext ==
    \/ \E i \in DOMAIN roots : RootRequest(i)
    \/ \E i \in DOMAIN roots : RootReturn(i)
    \/ \E k \in Requests : StartNode(k)
    \/ \E k \in Requests : ResolveIdentity(k)
    \/ \E k \in Requests : RequestDependencies(k)
    \/ \E k \in Requests : BatchFails(k)
    \/ \E k \in Requests : MergeInputs(k)
    \/ \E k \in Requests : CompileAndPublish(k)

BuildSpec == BuildInit /\ [][BuildNext]_vars

\* The scheduler runs every task that can run.
FairBuildSpec == BuildSpec /\ WF_vars(BuildNext)

\* The same engine and rule on packages whose import paths may coincide.
PackageSpec == PackageInit /\ [][BuildNext]_vars

FairPackageSpec == PackageSpec /\ WF_vars(BuildNext)

\* Both families of builds.
PipelineSpec == (BuildInit \/ PackageInit) /\ [][BuildNext]_vars

\* The engine under both of its loads: the process nodes of the remote
\* cache tests and the package nodes of a build.
EngineSpec == (CacheInit \/ BuildInit) /\ [][CacheNext \/ BuildNext]_vars

(***************************************************************************)
(* core/goals/run.py: the run goal                                         *)
(***************************************************************************)
\* The temporary directory temporary_dir creates under pants_workdir.
TmpDir == "tmpdir"

ExitCodes == 0..MaxExitCode

Cleanup_either(subsystem, global) ==
    subsystem.cleanup \/ global.process_cleanup

\* Line 140: cleanup is the default; the chroot is preserved if either
\* option is off.
Cleanup(subsystem, global) ==
    subsystem.cleanup /\ global.process_cleanup

\* Lines 164-166: the goal's exit code is the process's.
RunExitCode(exit_code) == exit_code

\* The run goal is asked to run a binary target, under any setting of the
\* two cleanup options.
RunInit ==
    /\ run_subsystem \in [cleanup : BOOLEAN]
    /\ global_options \in [process_cleanup : BOOLEAN]
    /\ run_frame = [IdleFrame EXCEPT !.pc = "start"]
    /\ workdir = <<>>
    /\ run_log = {}
    /\ run_result = NoResult
    /\ targets = <<>>
    /\ roots = <<>>
    /\ rootState = <<>>
    /\ observed = <<>>
    /\ nodes = <<>>
    /\ nextId = 0
    /\ bodyRuns = <<>>
    /\ compileRuns = <<>>
    /\ test = "none"
    /\ behavior = "backoff"
    /\ options = LazyOptions
    /\ stub = PlainStub
    /\ testpc = "none"
    /\ run_no = 1
    /\ file_digest = [r \in 1..2 |-> NoDigest]
    /\ run_metrics = [r \in 1..2 |-> NoMetrics]
    /\ removed = FALSE
    /\ procs = <<>>
    /\ consumer = NoConsumer
    /\ localStore = EmptyStore
    /\ pendingWrites = {}
    /\ metrics = ZeroMetrics
    /\ errCount = [c \in FailureClasses |-> 0]
    /\ stderr = {}
    /\ buildStatus = "idle"
    /\ execCount = <<>>
    /\ process_result = AbsentNode
    /\ reproducible = TRUE

\* Lines 124-138: the field set, the RunRequest and the target are
\* resolved; a request of these that fails ends the rule before the
\* temporary directory exists.
RunResolve ==
    /\ run_frame.pc = "start"
    /\ \/ \E restartable \in BOOLEAN :
             run_frame' = [run_frame EXCEPT !.pc = "resolved",
                                            !.restartable = restartable]
       \/ run_frame' = [run_frame EXCEPT !.pc = "raised"]
    /\ UNCHANGED <<run_subsystem, global_options, workdir, run_log,
                   run_result>>
    /\ UNCHANGED <<cacheVars, buildVars>>

\* Lines 140-144: cleanup is computed, temporary_dir creates the directory
\* and the with block is entered; a preserved chroot is logged.
TemporaryDirEnter ==
    /\ run_frame.pc = "resolved"
    /\ LET cleanup == Cleanup(run_subsystem, global_options) IN
       /\ run_frame' = [run_frame EXCEPT !.pc = "in_with",
                                         !.cleanup = cleanup,
                                         !.tmpdir = TmpDir]
       /\ run_log' = IF cleanup THEN run_log
                     ELSE run_log \cup {"Preserving running binary chroot"}
    /\ workdir' = (TmpDir :> "empty") @@ workdir
    /\ UNCHANGED <<run_subsystem, global_options, run_result>>
    /\ UNCHANGED <<cacheVars, buildVars>>

\* Lines 145-151: the digest is written into the directory, or the write
\* raises.
WriteDigest ==
    /\ run_frame.pc = "in_with"
    /\ \/ /\ workdir' = [workdir EXCEPT ![run_frame.tmpdir] = "digest"]
          /\ run_frame' = [run_frame EXCEPT !.pc = "written"]
       \/ /\ run_frame' = [run_frame EXCEPT !.pc = "raising"]
          /\ UNCHANGED workdir
    /\ UNCHANGED <<run_subsystem, global_options, run_log, run_result>>
    /\ UNCHANGED <<cacheVars, buildVars>>

\* Lines 153-164: the interactive process runs in the workspace and
\* returns its exit code, or the effect raises.
RunProcess ==
    /\ run_frame.pc = "written"
    /\ \/ \E code \in ExitCodes :
             run_frame' = [run_frame EXCEPT !.pc = "leaving",
                                            !.exit_code = code]
       \/ run_frame' = [run_frame EXCEPT !.pc = "raising"]
    /\ UNCHANGED <<run_subsystem, global_options, workdir, run_log,
                   run_result>>
    /\ UNCHANGED <<cacheVars, buildVars>>

\* The end of the with block of line 142, by return or by exception:
\* temporary_dir removes the directory it created when cleanup is set.
TemporaryDirExit ==
    /\ run_frame.pc \in {"leaving", "raising"}
    /\ workdir' = IF run_frame.cleanup
                  THEN [d \in DOMAIN workdir \ {run_frame.tmpdir} |-> workdir[d]]
                  ELSE workdir
    /\ run_frame' = [run_frame EXCEPT
                        !.pc = IF run_frame.pc = "leaving" THEN "left"
                               ELSE "raised"]
    /\ UNCHANGED <<run_subsystem, global_options, run_log, run_result>>
    /\ UNCHANGED <<cacheVars, buildVars>>

\* Line 166: return Run(exit_code).
ReturnRun ==
    /\ run_frame.pc = "left"
    /\ run_result' = [exit_code |-> RunExitCode(run_frame.exit_code)]
    /\ run_frame' = [run_frame EXCEPT !.pc = "returned"]
    /\ UNCHANGED <<run_subsystem, global_options, workdir, run_log>>
    /\ UNCHANGED <<cacheVars, buildVars>>

RunNext ==
    \/ RunResolve
    \/ TemporaryDirEnter
    \/ WriteDigest
    \/ RunProcess
    \/ TemporaryDirExit
    \/ ReturnRun

RunSpec == RunInit /\ [][RunNext]_vars

(***************************************************************************)
(* Properties of the rule graph                                            *)
(***************************************************************************)
Terminal == {"Completed", "Failed"}

\* The nodes of the table for a request value.
NodesOf(v) == {k \in DOMAIN nodes : RequestValue(k) = v}

\* The requests in flight: those of the batches the running rules wait on.
Attached ==
    {<<n, i>> \in (DOMAIN nodes) \X (1..NumUnits) :
        /\ nodes[n].state = "Running"
        /\ nodes[n].pc \in {"await", "compile"}
        /\ i \in DOMAIN nodes[n].subs
        /\ ~nodes[n].subs[i].cycle}

\* C8: for every request value at most one execution of the rule body is
\* in flight; a request that found its key's node pending or running
\* waits for that one node, no second body has started for it, and what a
\* requester has received from a batch is that node's result.
C8_SingleFlight ==
    /\ \A v \in RequestValues :
          Cardinality({k \in NodesOf(v) : nodes[k].state = "Running"}) <= 1
    /\ \A a \in Attached :
          LET sub == nodes[a[1]].subs[a[2]]
              v == RequestValue(sub.key)
          IN /\ sub.key \in DOMAIN nodes
             /\ sub.found \in {"Pending", "Running"} =>
                   /\ NodesOf(v) = {sub.key}
                   /\ bodyRuns[v] <= 1
             /\ nodes[a[1]].pc = "compile" =>
                   /\ nodes[sub.key].state = "Completed"
                   /\ nodes[a[1]].locals.dep_digests[a[2]]
                          = nodes[sub.key].result.digest

\* A request found its key's node running, attached to it, and the node is
\* still running its one execution while another requester waits for it
\* as well.
C8_Witness ==
    \E a \in Attached, b \in Attached :
        /\ a[1] # b[1]
        /\ nodes[a[1]].subs[a[2]].key = nodes[b[1]].subs[b[2]].key
        /\ nodes[a[1]].subs[a[2]].found = "Running"
        /\ nodes[nodes[a[1]].subs[a[2]].key].state = "Running"
        /\ bodyRuns[RequestValue(nodes[a[1]].subs[a[2]].key)] = 1

\* The target at `top` depends on two siblings that both depend on a
\* common third package.
Diamond(top, left, right, common) ==
    /\ Cardinality({top, left, right, common}) = 4
    /\ \A u \in {top, left, right, common} : IsBuildable(targets[u])
    /\ {left, right} \subseteq targets[top].dependencies
    /\ common \in targets[left].dependencies
    /\ common \in targets[right].dependencies

AllRootsDone == \A i \in DOMAIN roots : rootState[i] = "done"

\* C9: a request value has at most one node, whose body starts at most
\* once and compiles at most once, and exactly once when the node has
\* completed; the goal's two requests for one value return the same
\* result; and when the build of a unit with two siblings over a common
\* unit has completed, the common unit was compiled exactly once.
C9_MemoizedExactlyOnce ==
    /\ \A v \in RequestValues :
          /\ Cardinality(NodesOf(v)) <= 1
          /\ bodyRuns[v] <= 1 /\ compileRuns[v] <= 1
          /\ \A k \in NodesOf(v) :
                /\ nodes[k].state # "Pending" => bodyRuns[v] = 1
                /\ nodes[k].state = "Completed" => compileRuns[v] = 1
    /\ \A i \in DOMAIN roots, j \in DOMAIN roots :
          (RequestValue(roots[i]) = RequestValue(roots[j])
              /\ rootState[i] = "done" /\ rootState[j] = "done")
            => observed[i] = observed[j]
    /\ \A i \in DOMAIN roots :
          (rootState[i] = "done" /\ observed[i].state = "Completed") =>
              \A left \in Units, right \in Units, common \in Units :
                  Diamond(roots[i].address, left, right, common) =>
                      /\ compileRuns[[address |-> common,
                                      is_main |-> FALSE]] = 1
                      /\ bodyRuns[[address |-> common,
                                   is_main |-> FALSE]] = 1

\* The build of a diamond has completed for both of the goal's requests,
\* with the common unit compiled once.
C9_Witness ==
    /\ AllRootsDone
    /\ \A i \in DOMAIN roots : observed[i].state = "Completed"
    /\ \E left \in Units, right \in Units, common \in Units :
          /\ Diamond(roots[1].address, left, right, common)
          /\ compileRuns[[address |-> common, is_main |-> FALSE]] = 1

\* The keys a key's rule requests: one per buildable dependency.
KeyDependsOn(v) ==
    IF IsBuildable(targets[v.address])
    THEN {[address |-> d, is_main |-> FALSE] :
             d \in {x \in targets[v.address].dependencies :
                       IsBuildable(targets[x])}}
    ELSE {}

\* The keys reached from the keys of S through their requests.
RECURSIVE KeyClosure(_)
KeyClosure(S) ==
    LET more == S \cup UNION {KeyDependsOn(v) : v \in S}
    IN IF more = S THEN S ELSE KeyClosure(more)

\* The key depends on itself transitively.
DependsOnItself(v) ==
    KeyDependsOn(v) # {} /\ v \in KeyClosure(KeyDependsOn(v))

\* No request in flight is for a value that waits, directly or through
\* other nodes, for the requester: no set of nodes is blocked on itself.
NoWaitCycle ==
    \A a \in Attached :
        \A n \in RequestingChain(nodes, {a[1]}) :
            RequestValue(n) # RequestValue(nodes[a[1]].subs[a[2]].key)

\* A node whose key depends on itself never completes, and ends failed
\* with the cycle error; so does a node that depends on such a key.
CycleFails ==
    \A k \in DOMAIN nodes :
        (\E v \in KeyClosure({RequestValue(k)}) : DependsOnItself(v)) =>
            /\ nodes[k].state # "Completed"
            /\ nodes[k].state = "Failed" => nodes[k].error = "cycle"

\* C10: no node waits for itself through other nodes; a resolution whose
\* key depends on itself fails with the cycle error; and no node waits
\* forever: the build reaches a state where every node there is has ended
\* and the goal has its answers.
C10_CycleFailsWithoutDeadlock ==
    /\ [](NoWaitCycle /\ CycleFails)
    /\ <>(AllRootsDone /\ \A k \in DOMAIN nodes : nodes[k].state \in Terminal)

\* A cycle through more than one package was found at a request that is
\* not the requester's own key, and the goal's request has failed with it.
C10_Witness ==
    /\ AllRootsDone
    /\ observed[1].state = "Failed" /\ observed[1].error = "cycle"
    /\ \E k \in DOMAIN nodes : \E i \in DOMAIN nodes[k].subs :
          /\ nodes[k].subs[i].cycle
          /\ nodes[k].subs[i].key # k
          /\ nodes[k].error = "cycle"

\* The node has a request of its batch that failed or was refused as a
\* cycle.
HasFailedRequest(k) ==
    \E i \in DOMAIN nodes[k].subs :
        \/ nodes[k].subs[i].cycle
        \/ nodes[nodes[k].subs[i].key].state = "Failed"

\* C11: a rule that is past its batch of dependency requests (merged, at
\* the compiler, or completed) has every request of the batch completed,
\* one request per buildable dependency in address order, and holds their
\* digests in that order; a rule with a failed request in its batch is
\* never past the batch, never completes and never compiles.
C11_BatchJoinsInOrder ==
    \A k \in DOMAIN nodes :
        LET subs == nodes[k].subs
            deps == buildable_dependencies(targets[k.address])
        IN
        /\ nodes[k].pc = "compile" =>
              /\ Len(subs) = Len(deps)
              /\ \A i \in DOMAIN subs :
                    /\ subs[i].key.address = deps[i]
                    /\ ~subs[i].cycle
                    /\ nodes[subs[i].key].state = "Completed"
                    /\ nodes[k].locals.dep_digests[i]
                          = nodes[subs[i].key].result.digest
        /\ nodes[k].state = "Completed" =>
              \A i \in DOMAIN subs :
                  /\ nodes[subs[i].key].state = "Completed"
                  /\ DOMAIN nodes[subs[i].key].result.digest.manifest
                        \subseteq DOMAIN nodes[k].result.digest.manifest
        /\ HasFailedRequest(k) =>
              /\ nodes[k].pc # "compile"
              /\ nodes[k].state # "Completed"
              /\ compileRuns[RequestValue(k)] = 0

\* A rule is at the compiler with the digests of two dependencies in the
\* order of its requests, the second of which had completed before the
\* batch was issued and the first of which was created by it.
C11_Witness ==
    \E k \in DOMAIN nodes :
        /\ nodes[k].pc = "compile"
        /\ Len(nodes[k].subs) >= 2
        /\ nodes[k].subs[1].found = "absent"
        /\ nodes[k].subs[2].found = "Completed"
        /\ nodes[k].locals.dep_digests[1] # nodes[k].locals.dep_digests[2]
        /\ nodes[k].locals.dep_digests[2]
              = nodes[nodes[k].subs[2].key].result.digest

\* Two of the trees define one path with different content.
Disagree(trees) ==
    \E i \in DOMAIN trees, j \in DOMAIN trees :
        /\ i < j
        /\ \E q \in DOMAIN trees[i].manifest :
              /\ q \in DOMAIN trees[j].manifest
              /\ trees[i].manifest[q] # trees[j].manifest[q]

\* The tree is the union of the trees: their paths and no others, each
\* with the content it has in them.
IsUnion(tree, trees) ==
    /\ DOMAIN tree.manifest
          = UNION {DOMAIN trees[i].manifest : i \in DOMAIN trees}
    /\ \A i \in DOMAIN trees : \A q \in DOMAIN trees[i].manifest :
          tree.manifest[q] = trees[i].manifest[q]
    /\ tree.entries = Cardinality(DOMAIN tree.manifest)

\* The digests a rule whose batch has returned merges first (line 120).
BatchDigests(k) ==
    [i \in DOMAIN nodes[k].subs |-> nodes[nodes[k].subs[i].key].result.digest]

\* The trees it merges into the compiler's input (line 124).
CompilerInputs(k) ==
    <<MergeDigests(BatchDigests(k)),
      ImportConfig(UpdatedWith(<<>>, MultiGet(nodes, nodes[k].subs))).digest,
      nodes[k].locals.digest>>

\* The trees a rule at the compiler merges into its result (line 168).
PublishedTrees(k) ==
    nodes[k].locals.dep_digests
        \o <<OutputDigest(k.address, nodes[k].locals)>>

\* The step takes the rule k from its returned batch through the merges
\* of lines 119-125.
MergesInputs(k) ==
    /\ nodes[k].pc = "await" /\ nodes'[k].pc # "await"
    /\ ~HasFailedRequest(k)

\* The step takes the rule k through the merge of line 168.
MergesOutputs(k) == nodes[k].pc = "compile" /\ nodes'[k].pc # "compile"

\* C12: each merge of the rule fails with the merge-conflict error if and
\* only if two of its input trees define one path with different content,
\* and otherwise succeeds and yields the union of its inputs.
C12_MergeConflictIffDisagree ==
    [][\A k \in DOMAIN nodes :
         /\ MergesInputs(k) =>
               /\ (nodes'[k].state = "Failed"
                      /\ nodes'[k].error = "merge conflict")
                    <=> (Disagree(BatchDigests(k))
                            \/ Disagree(CompilerInputs(k)))
               /\ nodes'[k].state # "Failed" =>
                     /\ nodes'[k].pc = "compile"
                     /\ IsUnion(CompilerInputs(k)[1], BatchDigests(k))
                     /\ IsUnion(nodes'[k].locals.input_digest,
                                CompilerInputs(k))
         /\ MergesOutputs(k) =>
               /\ (nodes'[k].state = "Failed"
                      /\ nodes'[k].error = "merge conflict")
                    <=> Disagree(PublishedTrees(k))
               /\ nodes'[k].state # "Failed" =>
                     /\ nodes'[k].state = "Completed"
                     /\ IsUnion(nodes'[k].result.digest, PublishedTrees(k))
      ]_vars

\* A rule whose two dependencies both completed has failed with the
\* merge-conflict error: their outputs define one path differently.
C12_Witness ==
    \E k \in DOMAIN nodes :
        /\ nodes[k].state = "Failed" /\ nodes[k].error = "merge conflict"
        /\ Len(nodes[k].subs) >= 2
        /\ ~HasFailedRequest(k)
        /\ Disagree(BatchDigests(k))

\* The identifier a request's package is compiled under.
CompileIdentifier(v) ==
    IF v.is_main THEN MainImportPath ELSE targets[v.address].import_path

\* The keys of the transitive buildable dependencies of a key.
TransitiveDependencies(v) == KeyClosure(KeyDependsOn(v))

\* C13: the import mapping of a completed package build has exactly the
\* package's own compile identifier and the declared identifiers of its
\* transitive buildable dependencies as keys, one entry for each of these
\* packages; every entry maps its identifier to
\* __pkgs__/<escaped identifier>/__pkg__.a, and every mapped path is in
\* the returned tree; a package without dependencies has one entry.
C13_ImportMappingIsComplete ==
    \A k \in DOMAIN nodes :
        nodes[k].state = "Completed" =>
            LET mapping == nodes[k].result.import_paths_to_pkg_a_files
                v == RequestValue(k)
            IN
            /\ DOMAIN mapping =
                  {CompileIdentifier(v)}
                     \cup {CompileIdentifier(d) : d \in TransitiveDependencies(v)}
            /\ Cardinality(DOMAIN mapping)
                  = 1 + Cardinality(TransitiveDependencies(v))
            /\ \A id \in DOMAIN mapping :
                  /\ mapping[id] = "__pkgs__/" \o path_safe(id) \o "/__pkg__.a"
                  /\ mapping[id] \in DOMAIN nodes[k].result.digest.manifest
            /\ KeyDependsOn(v) = {} => Cardinality(DOMAIN mapping) = 1

\* An entry point with a dependency that has a dependency of its own has
\* completed with three entries, and a package without dependencies has
\* completed with one.
C13_Witness ==
    /\ \E k \in DOMAIN nodes :
          /\ nodes[k].state = "Completed" /\ k.is_main
          /\ Cardinality(TransitiveDependencies(RequestValue(k))) >= 2
          /\ \E d \in KeyDependsOn(RequestValue(k)) : KeyDependsOn(d) # {}
    /\ \E k \in DOMAIN nodes :
          /\ nodes[k].state = "Completed"
          /\ KeyDependsOn(RequestValue(k)) = {}
          /\ Cardinality(DOMAIN nodes[k].result.import_paths_to_pkg_a_files) = 1

\* The path a completed build publishes its own archive under.
OwnArchivePath(k) ==
    nodes[k].result.import_paths_to_pkg_a_files[
        CompileIdentifier(RequestValue(k))]

\* C14: when one package has been built both as a dependency and as an
\* entry point, the two builds publish the package's archive under two
\* different paths, whatever import path the package declares.
C14_DependencyAndEntryPointPathsDiffer ==
    \A k1 \in DOMAIN nodes, k2 \in DOMAIN nodes :
        (/\ nodes[k1].state = "Completed" /\ nodes[k2].state = "Completed"
         /\ k1.address = k2.address
         /\ k1.is_main /\ ~k2.is_main)
            => OwnArchivePath(k1) # OwnArchivePath(k2)

\* The completed builds of entry points.
EntryPoints == {k \in DOMAIN nodes : nodes[k].state = "Completed" /\ k.is_main}

\* C15 as stated: the archive paths and the import-mapping keys that two
\* entry points with different units publish for themselves are distinct.
C15_EntryPointsNeverCollide ==
    \A k1 \in EntryPoints, k2 \in EntryPoints :
        k1.address # k2.address =>
            /\ OwnArchivePath(k1) # OwnArchivePath(k2)
            /\ CompileIdentifier(RequestValue(k1))
                  # CompileIdentifier(RequestValue(k2))

\* C15 as amended: every entry point is compiled under the fixed
\* identifier "main", whatever import path it declares: its mapping has
\* the key "main" for __pkgs__/main/__pkg__.a and its tree has that path,
\* so any two entry points publish the same key and path; they are kept
\* apart by being separate requests, each with its own node and result.
C15_EntryPointsShareMain ==
    /\ \A k \in EntryPoints :
          LET r == nodes[k].result IN
          /\ MainImportPath \in DOMAIN r.import_paths_to_pkg_a_files
          /\ r.import_paths_to_pkg_a_files[MainImportPath]
                = "__pkgs__/main/__pkg__.a"
          /\ "__pkgs__/main/__pkg__.a" \in DOMAIN r.digest.manifest
    /\ \A k1 \in EntryPoints, k2 \in EntryPoints :
          /\ OwnArchivePath(k1) = OwnArchivePath(k2)
          /\ k1.address # k2.address => NodesOf(RequestValue(k1)) # NodesOf(RequestValue(k2))

\* Two entry points with different units, declaring different import
\* paths, have completed.
C15_Witness ==
    \E k1 \in EntryPoints, k2 \in EntryPoints :
        /\ k1.address # k2.address
        /\ targets[k1.address].import_path # targets[k2.address].import_path
        /\ targets[k1.address].import_path # MainImportPath
        /\ targets[k2.address].import_path # MainImportPath

\* The node failed with a structural error of its own: its target cannot
\* be built, one of its merges found a conflict, or one of its requests
\* closed a cycle.
OwnError(k) ==
    /\ nodes[k].state = "Failed"
    /\ \/ \A i \in DOMAIN nodes[k].subs :
             /\ ~nodes[k].subs[i].cycle
             /\ nodes[nodes[k].subs[i].key].state = "Completed"
       \/ \E i \in DOMAIN nodes[k].subs : nodes[k].subs[i].cycle

\* The nodes the node k transitively depends on, k included.
DependsOn(k) == {n \in DOMAIN nodes : RequestValue(n) \in KeyClosure({RequestValue(k)})}

\* For every node, the outcomes of the nodes it depends on: whether one
\* of them failed, and whether one of them has an error of its own.
Outcomes ==
    LET own == {n \in DOMAIN nodes : OwnError(n)}
        failed == {n \in DOMAIN nodes : nodes[n].state = "Failed"}
    IN [k \in DOMAIN nodes |->
           LET d == DependsOn(k)
           IN [failed |-> d \cap failed # {}, own |-> d \cap own # {}]]

\* Every request of the goal has been answered with the outcome of its
\* node, every node has come to an end, failed if it depends on a failed
\* node and completed if nothing it depends on has an error of its own.
Settled ==
    /\ \A i \in DOMAIN roots :
          /\ rootState[i] = "done"
          /\ observed[i].state = nodes[roots[i]].state
          /\ observed[i].result = nodes[roots[i]].result
    /\ \A k \in DOMAIN nodes : nodes[k].state \in Terminal
    /\ LET o == Outcomes
       IN \A k \in DOMAIN nodes :
             /\ o[k].failed => nodes[k].state = "Failed"
             /\ ~o[k].own => nodes[k].state = "Completed"

\* C16: a node that depends on a failed node never completes; a node
\* fails only if it or a node it depends on has a structural error of its
\* own (a cycle, a merge conflict, a target that cannot be built); a
\* completed node stays completed with its result; and the build never
\* stops before it is settled: as long as some node that depends on a
\* failed node has not failed, some other node has not completed, or a
\* request of the goal is unanswered, a step can be taken.
C16_ErrorsAbortOnlyDependents ==
    /\ [](LET o == Outcomes
          IN \A k \in DOMAIN nodes :
                /\ o[k].failed => nodes[k].state # "Completed"
                /\ nodes[k].state = "Failed" => o[k].own)
    /\ [][\A k \in DOMAIN nodes :
            nodes[k].state = "Completed" =>
                /\ nodes'[k].state = "Completed"
                /\ nodes'[k].result = nodes[k].result]_vars
    /\ [](Settled \/ ENABLED BuildNext)

\* The build is settled: a node has a structural error of its own, a node
\* that requested it has failed, and a sibling requested beside it, which
\* does not depend on it, has completed with a result.
C16_Witness ==
    /\ Settled
    /\ \E d \in DOMAIN nodes :
          /\ nodes[d].state = "Failed"
          /\ \E i \in DOMAIN nodes[d].subs, j \in DOMAIN nodes[d].subs :
                LET o == nodes[d].subs[i].key
                    sib == nodes[d].subs[j].key
                IN /\ o # d /\ OwnError(o)
                   /\ nodes[sib].state = "Completed"
                   /\ nodes[sib].result # NoResult
                   /\ o \notin DependsOn(sib)

\* The transitions of the lifecycle as it is stated, and with the edge
\* backtracking takes from a node that holds a result.
LifecycleEdges ==
    {<<"Pending", "Running">>, <<"Running", "Completed">>,
     <<"Running", "Failed">>, <<"Running", "Invalidated">>,
     <<"Invalidated", "Pending">>}

BacktrackingEdges == LifecycleEdges \cup {<<"Completed", "Invalidated">>}

\* The step starts a new scheduler, whose graph is new.
NewScheduler == testpc # "running" /\ testpc' = "running"

\* In this step every node of the graph is created Pending, keeps its
\* state or follows one of the edges, and no node leaves the graph.
FollowsLifecycle(edges) ==
    /\ \A k \in DOMAIN nodes :
          /\ k \in DOMAIN nodes'
          /\ \/ nodes'[k].state = nodes[k].state
             \/ <<nodes[k].state, nodes'[k].state>> \in edges
    /\ \A k \in DOMAIN nodes' \ DOMAIN nodes : nodes'[k].state = "Pending"
    /\ IF NewScheduler
       THEN /\ \A p \in DOMAIN procs' : procs'[p].state = "Pending"
            /\ process_result'.state \in {"Absent", "Pending"}
       ELSE /\ DOMAIN procs' = DOMAIN procs
            /\ \A p \in DOMAIN procs :
                  \/ procs'[p].state = procs[p].state
                  \/ <<procs[p].state, procs'[p].state>> \in edges
            /\ \/ process_result'.state = process_result.state
               \/ <<process_result.state, process_result'.state>> \in edges

\* In this step a node that is and stays Completed keeps its result.
CompletedResultKept ==
    /\ \A k \in DOMAIN nodes :
          nodes[k].state = "Completed" /\ nodes'[k].state = "Completed" =>
              nodes'[k].result = nodes[k].result
    /\ ~NewScheduler =>
          /\ \A p \in DOMAIN procs :
                procs[p].state = "Completed" /\ procs'[p].state = "Completed" =>
                    procs'[p].result = procs[p].result
          /\ (process_result.state = "Completed"
                /\ process_result'.state = "Completed") =>
                    process_result'.result = process_result.result

\* A node holds a result exactly while it is Completed, and a reader that
\* was answered by a Completed node holds the result the node holds.
OneResult ==
    /\ \A k \in DOMAIN nodes :
          (nodes[k].state = "Completed") = (nodes[k].result # NoResult)
    /\ \A p \in DOMAIN procs :
          (procs[p].state = "Completed") = (procs[p].result # NoResult)
    /\ (process_result.state = "Completed") = (process_result.result # NoResult)
    /\ \A i \in DOMAIN roots :
          rootState[i] = "done" /\ observed[i].state = "Completed" =>
              /\ nodes[roots[i]].state = "Completed"
              /\ observed[i].result = nodes[roots[i]].result

\* C17 as stated: every node follows only Pending -> Running ->
\* (Completed | Failed | Invalidated) and Invalidated -> Pending, and a
\* Completed node's result never changes while it stays Completed.
C17_OnlyStatedTransitions ==
    [][FollowsLifecycle(LifecycleEdges) /\ CompletedResultKept]_vars

\* C17, amended: every node follows only Pending -> Running -> (Completed
\* | Failed | Invalidated), Completed -> Invalidated when backtracking
\* invalidates it, and Invalidated -> Pending; a Completed node's result
\* never changes while it stays Completed, and its readers hold that
\* result.
C17_LifecycleWithBacktracking ==
    /\ [][FollowsLifecycle(BacktrackingEdges) /\ CompletedResultKept]_vars
    /\ []OneResult

\* A node was completed, invalidated by backtracking, created again and
\* completed again.
C17_Witness ==
    /\ \E p \in DOMAIN procs :
          /\ procs[p].attempt > 0
          /\ procs[p].state = "Completed"
    /\ process_result.attempt > 0
    /\ process_result.state = "Completed"
    /\ metrics.backtrack_attempts > 0

\* The consumer is about to ask for content that is neither in the local
\* store nor in the remote blob store.
ContentMissing ==
    /\ buildStatus = "running"
    /\ consumer.pc = "running"
    /\ process_result.state = "Completed"
    /\ ~CanLoad(entries_from_process[consumer.step],
                process_result.result.output_digest)

\* The process nodes whose result holds the digest.
Producers(digest) ==
    {p \in DOMAIN procs :
        procs[p].state = "Completed" /\ procs[p].result.output_digest = digest}

\* The re-executions the nodes stand for: one for each time a node was
\* created again, and one for a node that is invalidated.
RECURSIVE Reexecutions(_)
Reexecutions(ps) ==
    IF ps = <<>> THEN 0
    ELSE Head(ps).attempt + (IF Head(ps).state = "Invalidated" THEN 1 ELSE 0)
            + Reexecutions(Tail(ps))

\* The step the consumer takes when content is missing: the first time,
\* the node that produced the digest and the node whose result embeds it
\* are invalidated and hold no result, the counter goes up by one and the
\* build goes on; after a re-execution the build fails and nothing is
\* invalidated or counted.
BacktracksOrFails ==
    (ContentMissing /\ consumer' # consumer) =>
        LET digest == process_result.result.output_digest IN
        IF \A p \in Producers(digest) : procs[p].attempt = 0
        THEN /\ Producers(digest) # {}
             /\ \A p \in Producers(digest) :
                   /\ procs'[p].state = "Invalidated"
                   /\ procs'[p].result = NoResult
             /\ process_result'.state = "Invalidated"
             /\ process_result'.result = NoResult
             /\ metrics'.backtrack_attempts = metrics.backtrack_attempts + 1
             /\ consumer'.pc = "waiting"
             /\ buildStatus' = "running"
        ELSE /\ buildStatus' = "failed"
             /\ consumer'.pc = "failed"
             /\ metrics' = metrics
             /\ procs' = procs /\ process_result' = process_result

\* An invalidated node is created again as a new node, and a node that
\* was created again is executed, not looked up: its result is that of a
\* local execution of this build.
FromScratch ==
    /\ \A p \in DOMAIN procs :
          procs[p].attempt > 0 =>
              /\ procs[p].pc # "lookup"
              /\ procs[p].state = "Completed" =>
                    /\ procs[p].result.source = "local"
                    /\ execCount[p] > 0
    /\ process_result.state = "Completed" =>
          /\ procs[1].state = "Completed"
          /\ process_result.result = procs[1].result
          /\ process_result.attempt = procs[1].attempt

\* C18: when the consumer cannot materialize a digest, the node that
\* produced it and the node whose result embeds it are invalidated and
\* cleared, and both are executed again from scratch; the backtrack
\* counter is the number of re-executions; a node is re-executed at most
\* once, and content that is still missing after the re-execution fails
\* the build, which happens only then; the build ends, and ends failed
\* when the re-execution cannot reproduce the content.
C18_BacktrackOnceThenFatal ==
    /\ [][BacktracksOrFails]_vars
    /\ [](FromScratch
          /\ metrics.backtrack_attempts = Reexecutions(procs)
          /\ \A p \in DOMAIN procs : procs[p].attempt <= 1
          /\ buildStatus = "failed" =>
                /\ ~reproducible
                /\ procs[1].attempt = 1 /\ execCount[1] > 0
                /\ metrics.backtrack_attempts = 1)
    /\ <>(buildStatus \in {"success", "failed"})
    /\ <>(buildStatus = "failed" \/ reproducible \/ test # "lazy")

\* The content was missing again after the one re-execution and the
\* build has failed.
C18_Witness ==
    /\ buildStatus = "failed"
    /\ consumer.pc = "failed"
    /\ metrics.backtrack_attempts = 1
    /\ procs[1].attempt = 1 /\ procs[1].state = "Completed"
    /\ process_result.attempt = 1 /\ process_result.state = "Completed"

\* The target of the request is neither a first-party nor a third-party
\* package.
NoPackage(k) == targets[k.address].kind \notin {"first_party", "third_party"}

\* The steps that follow identity resolution, and what they leave behind.
PastIdentity(k) ==
    \/ nodes[k].pc \in {"deps", "await", "compile"}
    \/ nodes[k].subs # <<>>
    \/ nodes[k].locals # NoLocals
    \/ nodes[k].result # NoResult
    \/ compileRuns[RequestValue(k)] > 0

\* C19: a request whose target is no package never passes identity
\* resolution (it issues no sub-request, merges and compiles nothing) and
\* ends Failed with an error; only the goal ever requests such a target,
\* no rule requests one for a dependency; and a request whose target is a
\* package never fails at identity resolution.
C19_NoPackageFailsAtIdentity ==
    \A k \in DOMAIN nodes :
        /\ NoPackage(k) =>
              /\ ~PastIdentity(k)
              /\ nodes[k].state \in {"Pending", "Running", "Failed"}
              /\ nodes[k].state = "Failed" => nodes[k].error = "AssertionError"
              /\ \E i \in DOMAIN roots : roots[i] = k
        /\ \A i \in DOMAIN nodes[k].subs : ~NoPackage(nodes[k].subs[i].key)
        /\ ~NoPackage(k) => nodes[k].error # "AssertionError"
        /\ (~NoPackage(k) /\ nodes[k].state = "Failed") =>
              \E i \in DOMAIN nodes[k].subs :
                  \/ nodes[k].subs[i].cycle
                  \/ nodes[nodes[k].subs[i].key].state = "Failed"

\* The goal was answered with the failure of a request whose target is no
\* package and has dependencies, none of which was requested.
C19_Witness ==
    \E i \in DOMAIN roots :
        /\ rootState[i] = "done"
        /\ NoPackage(roots[i])
        /\ targets[roots[i].address].dependencies # {}
        /\ observed[i].state = "Failed"
        /\ nodes[roots[i]].error = "AssertionError"
        /\ DOMAIN nodes = {roots[j] : j \in DOMAIN roots}

\* run() has left the with block of line 142, by return or by exception.
ScopeLeft ==
    /\ run_frame.tmpdir # "none"
    /\ run_frame.pc \in {"left", "returned", "raised"}

\* run() is inside the with block.
InScope == run_frame.pc \in {"in_with", "written", "leaving", "raising"}

\* C20: once run() has left the scope of its temporary directory, by
\* return or by an exception of the write or of the process, the directory
\* is gone if and only if the run goal's cleanup option and the global
\* process-cleanup option are both true; inside the scope the directory
\* exists; what is preserved holds what was written; and the Run returned
\* carries the exit code of the process.
C20_ChrootCleanedIffBothOptions ==
    /\ ScopeLeft =>
          (run_frame.tmpdir \notin DOMAIN workdir) =
              (run_subsystem.cleanup /\ global_options.process_cleanup)
    /\ InScope => run_frame.tmpdir \in DOMAIN workdir
    /\ (run_frame.pc # "idle" /\ run_frame.tmpdir = "none") => workdir = <<>>
    /\ run_frame.pc = "returned" =>
          /\ run_frame.exit_code \in ExitCodes
          /\ run_result = [exit_code |-> run_frame.exit_code]
          /\ run_frame.tmpdir \in DOMAIN workdir =>
                workdir[run_frame.tmpdir] = "digest"
    /\ run_frame.pc \notin {"idle", "returned"} => run_result = NoResult

\* The process raised with the run goal's cleanup option on and the
\* global option off: the chroot, with the digest in it, is preserved.
C20_Witness ==
    /\ run_frame.pc = "raised"
    /\ run_subsystem.cleanup /\ ~global_options.process_cleanup
    /\ run_frame.tmpdir \in DOMAIN workdir
    /\ workdir[run_frame.tmpdir] = "digest"

====
